---------------------------- MODULE Spec2Model ----------------------------
(***************************************************************************)
(* A model of the Dev.to MCP server (server.py): ten tool handlers that    *)
(* each issue one HTTP request (update_article: a GET followed by a PUT)   *)
(* through a transport session scoped to the request, and three formatters *)
(* that turn the JSON payload into Markdown text.                          *)
(*                                                                         *)
(* Text is modelled character by character: a Python str is a sequence of  *)
(* one-character strings, so that substring search, lower-casing, line     *)
(* structure and concatenation are computed, not assumed.  A JSON value is *)
(* a tagged record (JStr, JInt, JBool, JObj, PyNone); a JSON object is a   *)
(* function from its keys to such values, so a missing key is a key that   *)
(* is not in the DOMAIN.                                                   *)
(***************************************************************************)
EXTENDS Integers, Sequences, FiniteSets, TLC

VARIABLES
    pc,         \* pc[i]: where invocation i stands ("idle", "await_get", ...)
    call,       \* call[i]: the tool invoked and its arguments
    sessions,   \* sessions[i]: the httpx.AsyncClient sessions invocation i opened
    requests,   \* requests[i]: the HTTP requests invocation i issued, in order
    outcome,    \* outcome[i]: the text returned or the exception propagated
    filtered    \* filtered[i]: the local filtered_articles of search_articles

vars == <<pc, call, sessions, requests, outcome, filtered>>

---------------------------------------------------------------------------
(* Bounds of the model *)

\* the longest article list the remote API returns
MaxArticles == 12
\* the number of tool invocations the host runs concurrently (SpecConc)
NumInv == 2

---------------------------------------------------------------------------
(* Python values *)

JStr(s) == [t |-> "str", v |-> s]
JInt(n) == [t |-> "int", v |-> n]
JBool(b) == [t |-> "bool", v |-> b]
JObj(o) == [t |-> "obj", v |-> o]
PyNone == [t |-> "none", v |-> 0]

\* {} : the dict with no key
EmptyObj == [k \in {} |-> PyNone]

Digits == <<"0", "1", "2", "3", "4", "5", "6", "7", "8", "9">>

RECURSIVE IntStr(_)
\* str(n) of a non-negative int: its decimal digits
IntStr(n) ==
    IF n < 10 THEN <<Digits[n + 1]>>
    ELSE IntStr(n \div 10) \o <<Digits[(n % 10) + 1]>>

BASE_URL == <<"h", "t", "t", "p", "s", ":", "/", "/", "d", "e", "v", ".", "t", "o", "/", "a", "p", "i">>
NoArticlesFound == <<"N", "o", " ", "a", "r", "t", "i", "c", "l", "e", "s", " ", "f", "o", "u", "n", "d", ".">>
ArticlesHeader == <<"#", " ", "D", "e", "v", ".", "t", "o", " ", "A", "r", "t", "i", "c", "l", "e", "s", "\n", "\n">>
Untitled == <<"U", "n", "t", "i", "t", "l", "e", "d">>
UnknownAuthor == <<"U", "n", "k", "n", "o", "w", "n", " ", "A", "u", "t", "h", "o", "r">>
UnknownDate == <<"U", "n", "k", "n", "o", "w", "n", " ", "d", "a", "t", "e">>
NoDescription == <<"N", "o", " ", "d", "e", "s", "c", "r", "i", "p", "t", "i", "o", "n", " ", "a", "v", "a", "i", "l", "a", "b", "l", "e", ".">>
NoContent == <<"N", "o", " ", "c", "o", "n", "t", "e", "n", "t", " ", "a", "v", "a", "i", "l", "a", "b", "l", "e", ".">>
ArticleNotFound == <<"A", "r", "t", "i", "c", "l", "e", " ", "n", "o", "t", " ", "f", "o", "u", "n", "d", ".">>
UserNotFound == <<"U", "s", "e", "r", " ", "n", "o", "t", " ", "f", "o", "u", "n", "d", ".">>
Unknown == <<"U", "n", "k", "n", "o", "w", "n">>
NoBio == <<"N", "o", " ", "b", "i", "o", " ", "a", "v", "a", "i", "l", "a", "b", "l", "e", ".">>
H2 == <<"#", "#", " ">>
H1 == <<"#", " ">>
NL == <<"\n">>
IdLabel == <<"I", "D", ":", " ">>
AuthorLabel == <<"A", "u", "t", "h", "o", "r", ":", " ">>
PublishedLabel == <<"P", "u", "b", "l", "i", "s", "h", "e", "d", ":", " ">>
TagsLabel == <<"T", "a", "g", "s", ":", " ">>
DescriptionLabel == <<"D", "e", "s", "c", "r", "i", "p", "t", "i", "o", "n", ":", " ">>
ContentHeader == <<"#", "#", " ", "C", "o", "n", "t", "e", "n", "t", "\n", "\n">>
BioLabel == <<"B", "i", "o", ":", " ">>
DetailsHeader == <<"#", "#", " ", "D", "e", "t", "a", "i", "l", "s", "\n">>
LocationLabel == <<"L", "o", "c", "a", "t", "i", "o", "n", ":", " ">>
MemberSinceLabel == <<"M", "e", "m", "b", "e", "r", " ", "s", "i", "n", "c", "e", ":", " ">>
LinksHeader == <<"\n", "#", "#", " ", "L", "i", "n", "k", "s", "\n">>
TwitterLabel == <<"T", "w", "i", "t", "t", "e", "r", ":", " ", "@">>
GitHubLabel == <<"G", "i", "t", "H", "u", "b", ":", " ">>
WebsiteLabel == <<"W", "e", "b", "s", "i", "t", "e", ":", " ">>
CreatedPrefix == <<"A", "r", "t", "i", "c", "l", "e", " ", "c", "r", "e", "a", "t", "e", "d", " ", "s", "u", "c", "c", "e", "s", "s", "f", "u", "l", "l", "y", " ", "w", "i", "t", "h", " ", "I", "D", ":", " ">>
UrlLabel == <<"\n", "U", "R", "L", ":", " ">>
UpdatedPrefix == <<"A", "r", "t", "i", "c", "l", "e", " ", "u", "p", "d", "a", "t", "e", "d", " ", "s", "u", "c", "c", "e", "s", "s", "f", "u", "l", "l", "y">>
UserPrefix == <<"U", "s", "e", "r", " ">>
NotFoundSuffix == <<" ", "n", "o", "t", " ", "f", "o", "u", "n", "d", ".">>
NoneStr == <<"N", "o", "n", "e">>
TrueStr == <<"T", "r", "u", "e">>
FalseStr == <<"F", "a", "l", "s", "e">>
PathArticlesLatest == <<"/", "a", "r", "t", "i", "c", "l", "e", "s", "/", "l", "a", "t", "e", "s", "t">>
PathArticles == <<"/", "a", "r", "t", "i", "c", "l", "e", "s">>
PathArticlesSlash == <<"/", "a", "r", "t", "i", "c", "l", "e", "s", "/">>
PathUsersSlash == <<"/", "u", "s", "e", "r", "s", "/">>
ContentTypeJson == <<"a", "p", "p", "l", "i", "c", "a", "t", "i", "o", "n", "/", "j", "s", "o", "n">>

\* str({}); no field of the modelled payloads holds a non-empty container
ReprEmptyDict == <<"{", "}">>

\* what an f-string replacement field {x} renders: str(x)
PyStr(x) ==
    CASE x.t = "str" -> x.v
      [] x.t = "int" -> IntStr(x.v)
      [] x.t = "bool" -> (IF x.v THEN TrueStr ELSE FalseStr)
      [] x.t = "none" -> NoneStr
      [] OTHER -> ReprEmptyDict

\* bool(x): Python truthiness, as tested by `if x:` and `not x`
Truthy(x) ==
    CASE x.t = "str" -> Len(x.v) > 0
      [] x.t = "int" -> x.v # 0
      [] x.t = "bool" -> x.v
      [] x.t = "none" -> FALSE
      [] OTHER -> DOMAIN x.v # {}

\* faulty variant of Get: dict.get(key), the default dropped
GetNoDefault(obj, key, default) == IF key \in DOMAIN obj THEN obj[key] ELSE PyNone
\* dict.get(key, default)
Get(obj, key, default) == IF key \in DOMAIN obj THEN obj[key] ELSE default

UpperCase == <<"A", "B", "C", "D", "E", "F", "G", "H", "I", "J", "K", "L", "M",
               "N", "O", "P", "Q", "R", "S", "T", "U", "V", "W", "X", "Y", "Z">>
LowerCase == <<"a", "b", "c", "d", "e", "f", "g", "h", "i", "j", "k", "l", "m",
               "n", "o", "p", "q", "r", "s", "t", "u", "v", "w", "x", "y", "z">>

LowerChar(c) ==
    IF \E k \in 1..Len(UpperCase) : UpperCase[k] = c
    THEN LowerCase[CHOOSE k \in 1..Len(UpperCase) : UpperCase[k] = c]
    ELSE c

\* str.lower()
lower(s) == [k \in 1..Len(s) |-> LowerChar(s[k])]

\* the str operator `needle in hay`
str_in(needle, hay) ==
    \E k \in 0..(Len(hay) - Len(needle)) : SubSeq(hay, k + 1, k + Len(needle)) = needle

\* faulty variant of Slice: the list is not cut
SliceAll(seq, n) == seq
\* the slice seq[:n]
Slice(seq, n) == SubSeq(seq, 1, IF Len(seq) < n THEN Len(seq) ELSE n)

\* how a call ends: a returned str, or a raised exception
Return(text) == [raised |-> FALSE, exc |-> "", status |-> 0, text |-> text]
Raise(exc, status) == [raised |-> TRUE, exc |-> exc, status |-> status, text |-> <<>>]

---------------------------------------------------------------------------
(* Helper formatting functions *)

\* the page/display limit of the list handlers
DisplayLimit == 10

\* article.get("user", {}).get("name", "Unknown Author") raises AttributeError
\* when the "user" value has no .get, i.e. is not a dict
author_raises(article) == Get(article, "user", JObj(EmptyObj)).t # "obj"
author_of(article) ==
    Get(Get(article, "user", JObj(EmptyObj)).v, "name", JStr(UnknownAuthor))

\* faulty variant of article_block: the Author line before the ID line
article_block_swapped(article) ==
    H2 \o PyStr(Get(article, "title", JStr(Untitled))) \o NL
    \o AuthorLabel \o PyStr(author_of(article)) \o NL
    \o IdLabel \o PyStr(Get(article, "id", JStr(<<>>))) \o NL
    \o PublishedLabel \o PyStr(Get(article, "readable_publish_date", JStr(UnknownDate))) \o NL
    \o TagsLabel \o PyStr(Get(article, "tags", JStr(<<>>))) \o NL
    \o DescriptionLabel \o PyStr(Get(article, "description", JStr(NoDescription))) \o NL \o NL
\* one pass of the loop body of format_articles
article_block(article) ==
    H2 \o PyStr(Get(article, "title", JStr(Untitled))) \o NL
    \o IdLabel \o PyStr(Get(article, "id", JStr(<<>>))) \o NL
    \o AuthorLabel \o PyStr(author_of(article)) \o NL
    \o PublishedLabel \o PyStr(Get(article, "readable_publish_date", JStr(UnknownDate))) \o NL
    \o TagsLabel \o PyStr(Get(article, "tags", JStr(<<>>))) \o NL
    \o DescriptionLabel \o PyStr(Get(article, "description", JStr(NoDescription))) \o NL \o NL

RECURSIVE article_blocks(_)
article_blocks(articles) ==
    IF Len(articles) = 0 THEN <<>>
    ELSE article_block(Head(articles)) \o article_blocks(Tail(articles))

\* faulty variant of format_articles: no `if not articles` test
format_articles_no_sentinel(articles) ==
    IF \E k \in 1..Len(articles) : author_raises(articles[k])
    THEN Raise("AttributeError", 0)
    ELSE Return(ArticlesHeader \o article_blocks(articles))
\* format_articles: the sentinel for no article, else header and blocks
format_articles(articles) ==
    IF Len(articles) = 0 THEN Return(NoArticlesFound)
    ELSE IF \E k \in 1..Len(articles) : author_raises(articles[k])
    THEN Raise("AttributeError", 0)
    ELSE Return(ArticlesHeader \o article_blocks(articles))

format_article_details(article) ==
    IF DOMAIN article = {} THEN Return(ArticleNotFound)
    ELSE IF author_raises(article) THEN Raise("AttributeError", 0)
    ELSE IF Get(article, "body_markdown", JStr(NoContent)).t # "str"
    THEN Raise("TypeError", 0)
    ELSE Return(
        H1 \o PyStr(Get(article, "title", JStr(Untitled))) \o NL \o NL
        \o AuthorLabel \o PyStr(author_of(article)) \o NL
        \o PublishedLabel \o PyStr(Get(article, "readable_publish_date", JStr(UnknownDate))) \o NL
        \o TagsLabel \o PyStr(Get(article, "tags", JStr(<<>>))) \o NL \o NL
        \o ContentHeader
        \o Get(article, "body_markdown", JStr(NoContent)).v)

\* `if field: result += label + field + "\n"`
optional_line(label, field) == IF Truthy(field) THEN label \o PyStr(field) \o NL ELSE <<>>

format_user_profile(user) ==
    IF DOMAIN user = {} THEN Return(UserNotFound)
    ELSE Return(
        H1 \o PyStr(Get(user, "name", JStr(Unknown)))
        \o <<" ", "(", "@">> \o PyStr(Get(user, "username", JStr(Unknown)))
        \o <<")">> \o NL \o NL
        \o BioLabel \o PyStr(Get(user, "summary", JStr(NoBio))) \o NL \o NL
        \o DetailsHeader
        \o optional_line(LocationLabel, Get(user, "location", JStr(<<>>)))
        \o optional_line(MemberSinceLabel, Get(user, "joined_at", JStr(<<>>)))
        \o LinksHeader
        \o optional_line(TwitterLabel, Get(user, "twitter_username", JStr(<<>>)))
        \o optional_line(GitHubLabel, Get(user, "github_username", JStr(<<>>)))
        \o optional_line(WebsiteLabel, Get(user, "website_url", JStr(<<>>))))

---------------------------------------------------------------------------
(* Transport: httpx.AsyncClient sessions and the requests sent through them *)

JList(s) == [t |-> "list", v |-> s]

\* `async with httpx.AsyncClient() as client:` entered: a new session
AsyncClientEnter(ss) == Append(ss, [open |-> TRUE, sent |-> 0])

\* client.get / client.post / client.put: one request through the session
ClientSend(ss) == [ss EXCEPT ![Len(ss)] = [@ EXCEPT !.sent = @ + 1]]

\* faulty variant of AsyncClientExit: the session is left open on an exception
AsyncClientExitLeaky(ss, raised) ==
    IF raised THEN ss ELSE [ss EXCEPT ![Len(ss)] = [@ EXCEPT !.open = FALSE]]
\* the end of the `async with` block, left by return or by an exception
AsyncClientExit(ss, raised) == [ss EXCEPT ![Len(ss)] = [@ EXCEPT !.open = FALSE]]

\* faulty variants of raise_for_status: client errors only; never
raise_for_status_4xx(status) == status \in 400..499
raise_for_status_never(status) == FALSE
\* response.raise_for_status(): TRUE when it raises httpx.HTTPStatusError
raise_for_status(status) == status \notin 200..299

HTTPStatusError(status) == Raise("HTTPStatusError", status)

\* the await of the request, then raise_for_status: TRUE when either raises.
\* The request is sent with timeout=10.0 and raises when no answer comes in time
fails(resp) == resp.kind = "timeout" \/ raise_for_status(resp.status)

\* the exception that leaves the `async with` block then
raised_by(resp) ==
    IF resp.kind = "timeout" THEN Raise("TimeoutException", 0)
    ELSE HTTPStatusError(resp.status)

\* a request as sent; it has neither status nor body until it is answered
Request(method, url, params, json, headers, sess) ==
    [method |-> method, url |-> url, params |-> params, json |-> json,
     headers |-> headers, session |-> sess, state |-> "sent", status |-> 0,
     body |-> PyNone]

\* the request of invocation i that is in flight is its last one
Answered(rs, resp) ==
    [rs EXCEPT ![Len(rs)] =
        [@ EXCEPT !.state = IF resp.kind = "timeout" THEN "timed_out" ELSE "answered",
                  !.status = resp.status,
                  !.body = IF fails(resp) THEN PyNone ELSE resp.body]]

\* fetch_from_api up to its await: session opened, GET sent
fetch_from_api_send(i, path, params) ==
    /\ sessions' = [sessions EXCEPT ![i] = ClientSend(AsyncClientEnter(@))]
    /\ requests' = [requests EXCEPT ![i] =
            Append(@, Request("GET", BASE_URL \o path, params, PyNone, EmptyObj,
                              Len(sessions[i]) + 1))]

\* fetch_from_api after its await: status checked, body parsed, session left
fetch_from_api_return(i, resp) ==
    /\ sessions' = [sessions EXCEPT ![i] =
            AsyncClientExit(@, fails(resp))]
    /\ requests' = [requests EXCEPT ![i] = Answered(@, resp)]

\* the handler ends: its text goes to the host, or its exception propagates
Finish(i, out) ==
    /\ pc' = [pc EXCEPT ![i] = IF out.raised THEN "failed" ELSE "returned"]
    /\ outcome' = [outcome EXCEPT ![i] = out]

Invoke(i, tool, args, at) ==
    /\ pc[i] = "idle"
    /\ pc' = [pc EXCEPT ![i] = at]
    /\ call' = [call EXCEPT ![i] = [tool |-> tool, args |-> args]]
    /\ UNCHANGED <<outcome, filtered>>

Resumed(i, tool, at) == pc[i] = at /\ call[i].tool = tool

\* articles[:10] then format_articles, on the parsed body of a 2xx response
format_first_articles(body) ==
    IF body.t # "list" THEN Raise("TypeError", 0)
    ELSE format_articles(Slice(body.v, DisplayLimit))

---------------------------------------------------------------------------
(* Resources *)

get_latest_articles_call(i) ==
    /\ Invoke(i, "get_latest_articles", EmptyObj, "await_get")
    /\ fetch_from_api_send(i, PathArticlesLatest, PyNone)

get_latest_articles_resume(i, resp) ==
    /\ Resumed(i, "get_latest_articles", "await_get")
    /\ fetch_from_api_return(i, resp)
    /\ Finish(i, IF fails(resp) THEN raised_by(resp)
                 ELSE format_first_articles(resp.body))
    /\ UNCHANGED <<call, filtered>>

get_top_articles_call(i) ==
    /\ Invoke(i, "get_top_articles", EmptyObj, "await_get")
    /\ fetch_from_api_send(i, PathArticles, PyNone)

get_top_articles_resume(i, resp) ==
    /\ Resumed(i, "get_top_articles", "await_get")
    /\ fetch_from_api_return(i, resp)
    /\ Finish(i, IF fails(resp) THEN raised_by(resp)
                 ELSE format_first_articles(resp.body))
    /\ UNCHANGED <<call, filtered>>

get_articles_by_tag_call(i, tag) ==
    /\ Invoke(i, "get_articles_by_tag", [tag |-> JStr(tag)], "await_get")
    /\ fetch_from_api_send(i, PathArticles, JObj([tag |-> JStr(tag)]))

get_articles_by_tag_resume(i, resp) ==
    /\ Resumed(i, "get_articles_by_tag", "await_get")
    /\ fetch_from_api_return(i, resp)
    /\ Finish(i, IF fails(resp) THEN raised_by(resp)
                 ELSE format_first_articles(resp.body))
    /\ UNCHANGED <<call, filtered>>

\* format_article_details on the parsed body of a 2xx response
format_details_of(body) ==
    IF body.t = "obj" THEN format_article_details(body.v)
    ELSE IF Truthy(body) THEN Raise("AttributeError", 0)
    ELSE Return(ArticleNotFound)

get_article_by_id_call(i, id) ==
    /\ Invoke(i, "get_article_by_id", [id |-> JStr(id)], "await_get")
    /\ fetch_from_api_send(i, PathArticlesSlash \o PyStr(JStr(id)), PyNone)

get_article_by_id_resume(i, resp) ==
    /\ Resumed(i, "get_article_by_id", "await_get")
    /\ fetch_from_api_return(i, resp)
    /\ Finish(i, IF fails(resp) THEN raised_by(resp)
                 ELSE format_details_of(resp.body))
    /\ UNCHANGED <<call, filtered>>

---------------------------------------------------------------------------
(* Tools *)

\* faulty variant of matches: the description is not searched
matches_title_only(query, article) ==
    str_in(lower(query), lower(Get(article, "title", JStr(<<>>)).v))
\* the condition of the list comprehension of search_articles
matches(query, article) ==
    \/ str_in(lower(query), lower(Get(article, "title", JStr(<<>>)).v))
    \/ str_in(lower(query), lower(Get(article, "description", JStr(<<>>)).v))

\* .lower() raises AttributeError on a title or description that is no str
matches_raises(query, article) ==
    \/ Get(article, "title", JStr(<<>>)).t # "str"
    \/ /\ ~str_in(lower(query), lower(Get(article, "title", JStr(<<>>)).v))
       /\ Get(article, "description", JStr(<<>>)).t # "str"

RECURSIVE filtered_articles(_, _)
filtered_articles(query, articles) ==
    IF Len(articles) = 0 THEN <<>>
    ELSE (IF matches(query, Head(articles)) THEN <<Head(articles)>> ELSE <<>>)
         \o filtered_articles(query, Tail(articles))

search_articles_call(i, query, page) ==
    /\ Invoke(i, "search_articles", [query |-> JStr(query), page |-> JInt(page)],
              "await_get")
    /\ fetch_from_api_send(i, PathArticles, JObj([page |-> JInt(page)]))

search_articles_body(query, body) ==
    IF body.t # "list" THEN Raise("TypeError", 0)
    ELSE IF \E k \in 1..Len(body.v) : matches_raises(query, body.v[k])
    THEN Raise("AttributeError", 0)
    ELSE format_articles(Slice(filtered_articles(query, body.v), DisplayLimit))

search_articles_resume(i, resp) ==
    /\ Resumed(i, "search_articles", "await_get")
    /\ fetch_from_api_return(i, resp)
    /\ Finish(i, IF fails(resp) THEN raised_by(resp)
                 ELSE search_articles_body(call[i].args.query.v, resp.body))
    /\ filtered' = [filtered EXCEPT ![i] =
            IF fails(resp) \/ resp.body.t # "list"
               \/ \E k \in 1..Len(resp.body.v) : matches_raises(call[i].args.query.v, resp.body.v[k])
            THEN <<>>
            ELSE filtered_articles(call[i].args.query.v, resp.body.v)]
    /\ UNCHANGED call

get_article_details_call(i, article_id) ==
    /\ Invoke(i, "get_article_details", [article_id |-> JInt(article_id)], "await_get")
    /\ fetch_from_api_send(i, PathArticlesSlash \o PyStr(JInt(article_id)), PyNone)

get_article_details_resume(i, resp) ==
    /\ Resumed(i, "get_article_details", "await_get")
    /\ fetch_from_api_return(i, resp)
    /\ Finish(i, IF fails(resp) THEN raised_by(resp)
                 ELSE format_details_of(resp.body))
    /\ UNCHANGED <<call, filtered>>

get_articles_by_username_call(i, username) ==
    /\ Invoke(i, "get_articles_by_username", [username |-> JStr(username)], "await_get")
    /\ fetch_from_api_send(i, PathArticles, JObj([username |-> JStr(username)]))

get_articles_by_username_resume(i, resp) ==
    /\ Resumed(i, "get_articles_by_username", "await_get")
    /\ fetch_from_api_return(i, resp)
    /\ Finish(i, IF fails(resp) THEN raised_by(resp)
                 ELSE format_first_articles(resp.body))
    /\ UNCHANGED <<call, filtered>>

\* the status code get_user_info turns into a text
NotFound == 404

\* faulty variant of get_user_info_except: every status is taken for a 404
get_user_info_except_any(username, status) ==
    Return(UserPrefix \o PyStr(JStr(username)) \o NotFoundSuffix)
\* the except clause of get_user_info
get_user_info_except(username, status) ==
    IF status = NotFound
    THEN Return(UserPrefix \o PyStr(JStr(username)) \o NotFoundSuffix)
    ELSE HTTPStatusError(status)

\* format_user_profile on the parsed body of a 2xx response
format_profile_of(body) ==
    IF body.t = "obj" THEN format_user_profile(body.v)
    ELSE IF Truthy(body) THEN Raise("AttributeError", 0)
    ELSE Return(UserNotFound)

get_user_info_call(i, username) ==
    /\ Invoke(i, "get_user_info", [username |-> JStr(username)], "await_get")
    /\ fetch_from_api_send(i, PathUsersSlash \o PyStr(JStr(username)), PyNone)

get_user_info_resume(i, resp) ==
    /\ Resumed(i, "get_user_info", "await_get")
    /\ fetch_from_api_return(i, resp)
    /\ Finish(i, IF resp.kind = "timeout" THEN raised_by(resp)
                 ELSE IF raise_for_status(resp.status)
                 THEN get_user_info_except(call[i].args.username.v, resp.status)
                 ELSE format_profile_of(resp.body))
    /\ UNCHANGED <<call, filtered>>

\* os.getenv("DEV_TO_API_KEY") when the variable is set
ApiKey == <<"k">>

\* the JSON body create_article posts
article_data(title, body_markdown, tags, published) ==
    JObj([article |-> JObj([title |-> JStr(title),
                            body_markdown |-> JStr(body_markdown),
                            published |-> JBool(published),
                            tags |-> JStr(tags)])])

create_article_call(i, title, body_markdown, tags, published, key) ==
    /\ Invoke(i, "create_article",
              [title |-> JStr(title), body_markdown |-> JStr(body_markdown),
               tags |-> JStr(tags), published |-> JBool(published)], "await_post")
    /\ sessions' = [sessions EXCEPT ![i] = ClientSend(AsyncClientEnter(@))]
    /\ requests' = [requests EXCEPT ![i] =
            Append(@, Request("POST", BASE_URL \o PathArticles, PyNone,
                              article_data(title, body_markdown, tags, published),
                              ("Content-Type" :> JStr(ContentTypeJson)) @@ ("api-key" :> key),
                              Len(sessions[i]) + 1))]

\* the f-string create_article returns, on the parsed body of a 2xx response
created_text(body) ==
    IF body.t # "obj" THEN Raise("AttributeError", 0)
    ELSE Return(CreatedPrefix \o PyStr(Get(body.v, "id", PyNone))
                \o UrlLabel \o PyStr(Get(body.v, "url", PyNone)))

create_article_resume(i, resp) ==
    /\ Resumed(i, "create_article", "await_post")
    /\ sessions' = [sessions EXCEPT ![i] =
            AsyncClientExit(@, fails(resp))]
    /\ requests' = [requests EXCEPT ![i] = Answered(@, resp)]
    /\ Finish(i, IF fails(resp) THEN raised_by(resp)
                 ELSE created_text(resp.body))
    /\ UNCHANGED <<call, filtered>>

\* faulty variant of update_data: `if title:` for `if title is not None:`
update_data_truthy(title, body_markdown, tags, published) ==
    LET given == [title |-> title, body_markdown |-> body_markdown,
                  tags |-> tags, published |-> published]
    IN  JObj([article |-> JObj([k \in {g \in DOMAIN given : Truthy(given[g])} |-> given[k]])])
\* the JSON body update_article puts: only the arguments that are not None
update_data(title, body_markdown, tags, published) ==
    LET given == [title |-> title, body_markdown |-> body_markdown,
                  tags |-> tags, published |-> published]
    IN  JObj([article |-> JObj([k \in {g \in DOMAIN given : given[g].t # "none"} |-> given[k]])])

update_article_call(i, article_id, upd) ==
    /\ Invoke(i, "update_article",
              [article_id |-> JInt(article_id), title |-> upd.title,
               body_markdown |-> upd.body_markdown, tags |-> upd.tags,
               published |-> upd.published], "await_get")
    /\ fetch_from_api_send(i, PathArticlesSlash \o PyStr(JInt(article_id)), PyNone)

\* the GET of update_article answered: on a 2xx the PUT is built and sent
update_article_resume_get(i, resp) ==
    /\ Resumed(i, "update_article", "await_get")
    /\ IF fails(resp)
       THEN /\ fetch_from_api_return(i, resp)
            /\ Finish(i, raised_by(resp))
       ELSE /\ sessions' = [sessions EXCEPT ![i] =
                    ClientSend(AsyncClientEnter(AsyncClientExit(@, FALSE)))]
            /\ requests' = [requests EXCEPT ![i] =
                    Append(Answered(@, resp),
                           Request("PUT",
                                   BASE_URL \o PathArticlesSlash \o PyStr(call[i].args.article_id),
                                   PyNone,
                                   update_data(call[i].args.title, call[i].args.body_markdown,
                                               call[i].args.tags, call[i].args.published),
                                   EmptyObj, Len(sessions[i]) + 1))]
            /\ pc' = [pc EXCEPT ![i] = "await_put"]
            /\ UNCHANGED outcome
    /\ UNCHANGED <<call, filtered>>

\* the f-string update_article returns, on the parsed body of a 2xx response
updated_text(body) ==
    IF body.t # "obj" THEN Raise("AttributeError", 0)
    ELSE Return(UpdatedPrefix \o UrlLabel \o PyStr(Get(body.v, "url", PyNone)))

update_article_resume_put(i, resp) ==
    /\ Resumed(i, "update_article", "await_put")
    /\ sessions' = [sessions EXCEPT ![i] =
            AsyncClientExit(@, fails(resp))]
    /\ requests' = [requests EXCEPT ![i] = Answered(@, resp)]
    /\ Finish(i, IF fails(resp) THEN raised_by(resp)
                 ELSE updated_text(resp.body))
    /\ UNCHANGED <<call, filtered>>

---------------------------------------------------------------------------
(* The remote API's answers and the host's arguments *)

ArticleKeys == {"title", "user", "readable_publish_date", "id", "tags",
                "description", "body_markdown"}

FullArticle ==
    [title |-> JStr(<<"A", "b">>),
     user |-> JObj([name |-> JStr(<<"A", "l">>)]),
     readable_publish_date |-> JStr(<<"J", "a", "n", " ", "1">>),
     id |-> JInt(7),
     tags |-> JStr(<<"g", "o">>),
     description |-> JStr(<<"c", "d">>),
     body_markdown |-> JStr(<<"H", "i">>)]

\* an article with a key no formatter reads, and none of the keys they read
OnlyUrl == [url |-> JStr(<<"u">>)]

Restrict(obj, keys) == [k \in keys |-> obj[k]]

\* every article with any subset of the optional fields missing
SparseArticles ==
    {Restrict(a, S) : S \in SUBSET ArticleKeys,
                      a \in {FullArticle, [FullArticle EXCEPT !.user = JObj(EmptyObj)]}}
    \cup {OnlyUrl}

UserKeys == {"username", "name", "summary", "twitter_username", "github_username",
             "website_url", "location", "joined_at"}

FullUser ==
    [username |-> JStr(<<"a", "l">>),
     name |-> JStr(<<"A", "l">>),
     summary |-> JStr(<<"b", "i", "o">>),
     twitter_username |-> JStr(<<"t", "w">>),
     github_username |-> JStr(<<"g", "h">>),
     website_url |-> JStr(<<"w">>),
     location |-> JStr(<<"N", "Y">>),
     joined_at |-> JStr(<<"2", "0", "2", "0">>)]

\* a profile whose links and location are present but empty
BlankUser ==
    [FullUser EXCEPT !.twitter_username = PyNone, !.github_username = JStr(<<>>),
                     !.website_url = PyNone, !.location = JStr(<<>>)]

SparseUsers ==
    {Restrict(FullUser, S) : S \in SUBSET UserKeys} \cup {BlankUser, OnlyUrl}

\* titles and descriptions that differ in case, in where they match, in presence
PoolArticle(k, pos) ==
    LET base == [FullArticle EXCEPT !.id = JInt(pos)]
    IN  CASE k = 1 -> base
          [] k = 2 -> [base EXCEPT !.title = JStr(<<"c", "d">>),
                                   !.description = JStr(<<"x", "A", "B">>)]
          [] k = 3 -> [base EXCEPT !.title = JStr(<<"#", "#", " ", "z">>),
                                   !.description = JStr(<<"z", "z">>)]
          [] k = 4 -> Restrict([base EXCEPT !.description = JStr(<<"a", "B">>)],
                               ArticleKeys \ {"title"})
          [] k = 5 -> Restrict([base EXCEPT !.title = JStr(<<"A", "B">>)],
                               ArticleKeys \ {"description"})
          [] OTHER -> Restrict(base, ArticleKeys \ {"title", "description"})

Patterns == {<<1, 2, 3, 4, 5, 6>>, <<1, 3, 2, 4, 5, 1, 2, 4, 5, 1, 2, 4, 5>>}

\* a page of n articles, numbered by position
Page(n, pat) == [pos \in 1..n |-> PoolArticle(pat[((pos - 1) % Len(pat)) + 1], pos)]

LongPages == {Page(n, pat) : n \in 0..MaxArticles, pat \in Patterns}
SparsePages == {<<a>> : a \in SparseArticles}

Optional(values) == {PyNone} \cup values

Updates ==
    [title : Optional({JStr(<<>>), JStr(<<"T">>)}),
     body_markdown : Optional({JStr(<<>>), JStr(<<"B">>)}),
     tags : Optional({JStr(<<>>), JStr(<<"t">>)}),
     published : Optional({JBool(FALSE), JBool(TRUE)})]

\* the body of a non-2xx answer
ErrorBody == JObj([error |-> JStr(<<"e">>)])

\* what the host may pass and the remote API may answer, sequential host
Full ==
    [inv |-> {1},
     ok |-> {200, 201},
     err |-> {401, 404, 500},
     pages |-> LongPages \cup SparsePages,
     articles |-> SparseArticles,
     users |-> SparseUsers,
     prefetched |-> {FullArticle, EmptyObj},
     written |-> {OnlyUrl, EmptyObj},
     tags |-> {<<"g", "o">>},
     usernames |-> {<<"a", "l">>, <<>>},
     ids |-> {7, 42},
     queries |-> {<<>>, <<"a", "b">>, <<"B">>, <<"C", "d">>, <<"#">>, <<"q">>},
     pagenos |-> {1, 2},
     titles |-> {<<"T">>, <<>>},
     bodies |-> {<<"B">>},
     tagargs |-> {<<>>, <<"t">>},
     published |-> BOOLEAN,
     keys |-> {PyNone, JStr(ApiKey)},
     updates |-> Updates]

\* the same with concurrent invocations and few values
Small ==
    [inv |-> 1..NumInv,
     ok |-> {200},
     err |-> {404, 500},
     pages |-> {<<>>, Page(1, <<1>>)},
     articles |-> {FullArticle},
     users |-> {FullUser},
     prefetched |-> {FullArticle},
     written |-> {OnlyUrl},
     tags |-> {<<"g", "o">>},
     usernames |-> {<<"a", "l">>},
     ids |-> {7},
     queries |-> {<<"a", "b">>},
     pagenos |-> {1},
     titles |-> {<<"T">>},
     bodies |-> {<<"B">>},
     tagargs |-> {<<"t">>},
     published |-> {TRUE},
     keys |-> {JStr(ApiKey)},
     updates |-> {u \in Updates :
                    \/ \A k \in DOMAIN u : u[k].t = "none"
                    \/ \A k \in DOMAIN u : Truthy(u[k])}]

\* invocation i has a request in flight: its last one, not yet answered
InFlight(i) == Len(requests[i]) > 0 /\ requests[i][Len(requests[i])].state = "sent"

\* the answers the remote API may give to the request invocation i has in flight
Errors(W) == {[kind |-> "response", status |-> s, body |-> ErrorBody] : s \in W.err}
Timeout == [kind |-> "timeout", status |-> 0, body |-> PyNone]
Answers(W, i, bodies) ==
    IF InFlight(i)
    THEN {[kind |-> "response", status |-> s, body |-> b] : s \in W.ok, b \in bodies}
         \cup Errors(W) \cup {Timeout}
    ELSE {}

ListAnswers(W, i) == Answers(W, i, {JList(p) : p \in W.pages})
ArticleAnswers(W, i) == Answers(W, i, {JObj(a) : a \in W.articles})
UserAnswers(W, i) == Answers(W, i, {JObj(u) : u \in W.users})
PrefetchAnswers(W, i) == Answers(W, i, {JObj(a) : a \in W.prefetched})
WriteAnswers(W, i) == Answers(W, i, {JObj(a) : a \in W.written})

---------------------------------------------------------------------------
(* The specifications *)

NoCall == [tool |-> "", args |-> EmptyObj]
NoOutcome == [raised |-> FALSE, exc |-> "", status |-> 0, text |-> <<>>]

InitOf(W) ==
    /\ pc = [i \in W.inv |-> "idle"]
    /\ call = [i \in W.inv |-> NoCall]
    /\ sessions = [i \in W.inv |-> <<>>]
    /\ requests = [i \in W.inv |-> <<>>]
    /\ outcome = [i \in W.inv |-> NoOutcome]
    /\ filtered = [i \in W.inv |-> <<>>]

Step(W) ==
    \E i \in W.inv :
        \/ get_latest_articles_call(i)
        \/ \E resp \in ListAnswers(W, i) : get_latest_articles_resume(i, resp)
        \/ get_top_articles_call(i)
        \/ \E resp \in ListAnswers(W, i) : get_top_articles_resume(i, resp)
        \/ \E tag \in W.tags : get_articles_by_tag_call(i, tag)
        \/ \E resp \in ListAnswers(W, i) : get_articles_by_tag_resume(i, resp)
        \/ \E id \in W.ids : get_article_by_id_call(i, IntStr(id))
        \/ \E resp \in ArticleAnswers(W, i) : get_article_by_id_resume(i, resp)
        \/ \E query \in W.queries, page \in W.pagenos : search_articles_call(i, query, page)
        \/ \E resp \in ListAnswers(W, i) : search_articles_resume(i, resp)
        \/ \E id \in W.ids : get_article_details_call(i, id)
        \/ \E resp \in ArticleAnswers(W, i) : get_article_details_resume(i, resp)
        \/ \E username \in W.usernames : get_articles_by_username_call(i, username)
        \/ \E resp \in ListAnswers(W, i) : get_articles_by_username_resume(i, resp)
        \/ \E username \in W.usernames : get_user_info_call(i, username)
        \/ \E resp \in UserAnswers(W, i) : get_user_info_resume(i, resp)
        \/ \E title \in W.titles, body \in W.bodies, tags \in W.tagargs,
              published \in W.published, key \in W.keys :
                create_article_call(i, title, body, tags, published, key)
        \/ \E resp \in WriteAnswers(W, i) : create_article_resume(i, resp)
        \/ \E id \in W.ids, upd \in W.updates : update_article_call(i, id, upd)
        \/ \E resp \in PrefetchAnswers(W, i) : update_article_resume_get(i, resp)
        \/ \E resp \in WriteAnswers(W, i) : update_article_resume_put(i, resp)

Init == InitOf(Full)
Next == Step(Full)
Spec == Init /\ [][Next]_vars

InitConc == InitOf(Small)
NextConc == Step(Small)
SpecConc == InitConc /\ [][NextConc]_vars


---------------------------------------------------------------------------
(* Reading a state: what was asked, what was answered, what came back *)

Invocations == DOMAIN pc

ListTools == {"get_latest_articles", "get_top_articles", "get_articles_by_tag",
              "get_articles_by_username"}
DetailTools == {"get_article_by_id", "get_article_details"}

Ended(i) == pc[i] \in {"returned", "failed"}
Is2xx(status) == status >= 200 /\ status < 300

\* invocation i was answered 2xx on its first request
Fetched(i) == Len(requests[i]) >= 1 /\ Is2xx(requests[i][1].status)
\* the JSON it was answered with
Payload(i) == requests[i][1].body.v

\* a request of invocation i was answered with a status outside 2xx
Refused(i) == \E k \in 1..Len(requests[i]) :
                 requests[i][k].state = "answered" /\ ~Is2xx(requests[i][k].status)

RECURSIVE NewlinesIn(_, _, _)
\* the positions of the newlines of text[lo..hi], ascending
NewlinesIn(text, lo, hi) ==
    IF lo > hi THEN <<>>
    ELSE IF lo = hi THEN (IF text[lo] = "\n" THEN <<lo>> ELSE <<>>)
    ELSE NewlinesIn(text, lo, (lo + hi) \div 2)
         \o NewlinesIn(text, ((lo + hi) \div 2) + 1, hi)

\* the lines of a text, as text.split("\n") gives them
Lines(text) ==
    LET nl == NewlinesIn(text, 1, Len(text))
    IN  [k \in 1..(Len(nl) + 1) |->
            SubSeq(text, IF k = 1 THEN 1 ELSE nl[k - 1] + 1,
                         IF k = Len(nl) + 1 THEN Len(text) ELSE nl[k] - 1)]

StartsWith(text, prefix) ==
    Len(prefix) <= Len(text) /\ SubSeq(text, 1, Len(prefix)) = prefix

\* the number of level-two headings: lines that begin "## "
HeadingCount(text) ==
    LET ls == Lines(text)
    IN  Cardinality({k \in 1..Len(ls) : StartsWith(ls[k], <<"#", "#", " ">>)})

AtMost(n, cap) == IF n < cap THEN n ELSE cap

---------------------------------------------------------------------------
(* C7 *)

TextNoArticles == <<"N", "o", " ", "a", "r", "t", "i", "c", "l", "e", "s", " ",
                    "f", "o", "u", "n", "d", ".">>
TextArticleNotFound == <<"A", "r", "t", "i", "c", "l", "e", " ", "n", "o", "t", " ",
                         "f", "o", "u", "n", "d", ".">>
TextUserNotFound == <<"U", "s", "e", "r", " ", "n", "o", "t", " ", "f", "o", "u", "n", "d", ".">>

\* C7: an empty payload is answered with the fixed sentinel, never with empty
\* output: a list handler answered [] (search_articles: left with no match)
\* returns exactly "No articles found.", without the "# Dev.to Articles"
\* header; an article handler answered {} returns "Article not found.";
\* get_user_info answered {} returns "User not found.".
C7_EmptySentinel ==
    \A i \in Invocations :
        (Ended(i) /\ Fetched(i)) =>
            /\ (call[i].tool \in ListTools /\ Len(Payload(i)) = 0)
                  => (pc[i] = "returned" /\ outcome[i].text = TextNoArticles)
            /\ (call[i].tool = "search_articles" /\ Len(filtered[i]) = 0)
                  => (pc[i] = "returned" /\ outcome[i].text = TextNoArticles)
            /\ (call[i].tool \in DetailTools /\ DOMAIN Payload(i) = {})
                  => (pc[i] = "returned" /\ outcome[i].text = TextArticleNotFound)
            /\ (call[i].tool = "get_user_info" /\ DOMAIN Payload(i) = {})
                  => (pc[i] = "returned" /\ outcome[i].text = TextUserNotFound)
            /\ (pc[i] = "returned" /\ call[i].tool \in ListTools \cup DetailTools
                                        \cup {"search_articles", "get_user_info"})
                  => Len(outcome[i].text) > 0

\* search_articles was answered a page with articles, none of which matched
C7_Witness ==
    \E i \in Invocations :
        /\ call[i].tool = "search_articles" /\ pc[i] = "returned" /\ Fetched(i)
        /\ Len(Payload(i)) > 0 /\ Len(filtered[i]) = 0
        /\ outcome[i].text = TextNoArticles

---------------------------------------------------------------------------
(* C4 *)

\* C4: get_user_info answered 404 returns "User {username} not found." and
\* raises nothing; answered any other status outside 2xx it fails with that
\* HTTP error and returns no text.
C4_UserNotFound ==
    \A i \in Invocations :
        (call[i].tool = "get_user_info" /\ Refused(i)) =>
            IF requests[i][1].status = 404
            THEN /\ pc[i] = "returned"
                 /\ ~outcome[i].raised
                 /\ outcome[i].text = <<"U", "s", "e", "r", " ">> \o call[i].args.username.v
                        \o <<" ", "n", "o", "t", " ", "f", "o", "u", "n", "d", ".">>
            ELSE /\ pc[i] = "failed"
                 /\ outcome[i].raised
                 /\ outcome[i].exc = "HTTPStatusError"
                 /\ outcome[i].status = requests[i][1].status
                 /\ outcome[i].text = <<>>

\* get_user_info for a named user was answered 404
C4_Witness ==
    \E i \in Invocations :
        /\ call[i].tool = "get_user_info" /\ Len(requests[i]) = 1
        /\ requests[i][1].status = 404
        /\ Len(call[i].args.username.v) > 0
        /\ pc[i] = "returned"

---------------------------------------------------------------------------
(* C6 *)

\* C6: in every handler but get_user_info, an answer outside 2xx to any of
\* its requests ends the invocation in the propagated HTTP failure: no text,
\* neither a success message nor a sentinel, is returned.
C6_FailurePropagates ==
    \A i \in Invocations :
        (call[i].tool # "get_user_info" /\ Refused(i)) =>
            /\ pc[i] = "failed"
            /\ outcome[i].raised
            /\ outcome[i].exc = "HTTPStatusError"
            /\ outcome[i].status = requests[i][Len(requests[i])].status
            /\ outcome[i].text = <<>>

\* the PUT of update_article was answered 500
C6_Witness ==
    \E i \in Invocations :
        /\ call[i].tool = "update_article" /\ Len(requests[i]) = 2
        /\ requests[i][2].status = 500
        /\ pc[i] = "failed"

---------------------------------------------------------------------------
(* What the claims expect of a displayed article *)

\* the text of a field, a missing field being the empty text
TextOf(article, key) == IF key \in DOMAIN article THEN article[key].v ELSE <<>>

SameLetter(c, d) ==
    c = d \/ \E k \in 1..Len(UpperCase) : {c, d} = {UpperCase[k], LowerCase[k]}

\* needle occurs in hay, letter case apart
ContainsCI(hay, needle) ==
    \E off \in 0..(Len(hay) - Len(needle)) :
        \A j \in 1..Len(needle) : SameLetter(hay[off + j], needle[j])

Mentions(article, query) ==
    \/ ContainsCI(TextOf(article, "title"), query)
    \/ ContainsCI(TextOf(article, "description"), query)

\* the articles of a page that mention the query, in the order of the page
Mentioning(page, query) ==
    LET Hit(article) == Mentions(article, query)
    IN  SelectSeq(page, Hit)

TitleShown(article) ==
    IF "title" \in DOMAIN article THEN article["title"].v
    ELSE <<"U", "n", "t", "i", "t", "l", "e", "d">>

IdShown(article) == IF "id" \in DOMAIN article THEN IntStr(article["id"].v) ELSE <<>>

\* the indices of the lines that are level-two headings, ascending
HeadingLines(ls) ==
    LET IsHeading(k) == StartsWith(ls[k], <<"#", "#", " ">>)
    IN  SelectSeq([k \in 1..Len(ls) |-> k], IsHeading)

\* the text shows exactly the first articles of `shown`, ten at most, one
\* "## " heading each, in order
ShowsFirstTen(text, shown) ==
    LET ls == Lines(text)
        hs == HeadingLines(ls)
    IN  /\ HeadingCount(text) = AtMost(Len(shown), 10)
        /\ Len(hs) = AtMost(Len(shown), 10)
        /\ \A k \in 1..Len(hs) :
              /\ ls[hs[k]] = <<"#", "#", " ">> \o TitleShown(shown[k])
              /\ ls[hs[k] + 1] = <<"I", "D", ":", " ">> \o IdShown(shown[k])

---------------------------------------------------------------------------
(* C2 *)

\* C2: whatever the length n of the list the remote API answers, the text a
\* list handler returns has exactly one "## " heading per displayed article,
\* min(n, 10) of them (search_articles: min(number of matching articles, 10)),
\* and the displayed articles are the first ones in response order.
C2_OneHeadingPerArticleCappedAtTen ==
    \A i \in Invocations :
        (Ended(i) /\ Fetched(i)) =>
            /\ call[i].tool \in ListTools =>
                  /\ pc[i] = "returned"
                  /\ ShowsFirstTen(outcome[i].text, Payload(i))
            /\ call[i].tool = "search_articles" =>
                  /\ pc[i] = "returned"
                  /\ ShowsFirstTen(outcome[i].text,
                                   Mentioning(Payload(i), call[i].args.query.v))

\* a search left more than ten matching articles, an article that does not
\* match standing among the first ten of the page, and ten were displayed
C2_Witness ==
    \E i \in Invocations :
        /\ call[i].tool = "search_articles" /\ pc[i] = "returned" /\ Fetched(i)
        /\ Len(filtered[i]) > 10
        /\ ~Mentions(Payload(i)[2], call[i].args.query.v)
        /\ HeadingCount(outcome[i].text) = 10

---------------------------------------------------------------------------
(* C3 *)

\* C3: for every query and every fetched page, the filtered list of
\* search_articles is the subsequence, order kept, of exactly the articles
\* whose title or description contains the query, letter case apart.
C3_SearchFilter ==
    \A i \in Invocations :
        (call[i].tool = "search_articles" /\ Ended(i) /\ Fetched(i)) =>
            filtered[i] = Mentioning(Payload(i), call[i].args.query.v)

\* a page of which one article matched by its description only, in another
\* letter case than the query's, and another article did not match
C3_Witness ==
    \E i \in Invocations :
        /\ call[i].tool = "search_articles" /\ pc[i] = "returned" /\ Fetched(i)
        /\ Len(call[i].args.query.v) > 0
        /\ Len(filtered[i]) > 0 /\ Len(filtered[i]) < Len(Payload(i))
        /\ \E k \in 1..Len(filtered[i]) :
              /\ ~ContainsCI(TextOf(filtered[i][k], "title"), call[i].args.query.v)
              /\ ~str_in(call[i].args.query.v, TextOf(filtered[i][k], "description"))

---------------------------------------------------------------------------
(* C5 *)

\* the text is the "# Dev.to Articles" header and one block per article of
\* `shown`, each block its "## <title>" line, then the lines ID:, Author:,
\* Published:, Tags:, Description: in that order, then an empty line
IsArticleListing(text, shown) ==
    LET ls == Lines(text)
    IN  /\ StartsWith(text, <<"#", " ", "D", "e", "v", ".", "t", "o", " ", "A", "r", "t",
                              "i", "c", "l", "e", "s", "\n", "\n">>)
        /\ Len(ls) = 2 + 7 * Len(shown) + 1
        /\ ls[Len(ls)] = <<>>
        /\ \A k \in 1..Len(shown) :
              LET at == 2 + 7 * (k - 1)
              IN  /\ ls[at + 1] = <<"#", "#", " ">> \o TitleShown(shown[k])
                  /\ StartsWith(ls[at + 2], <<"I", "D", ":", " ">>)
                  /\ StartsWith(ls[at + 3], <<"A", "u", "t", "h", "o", "r", ":", " ">>)
                  /\ StartsWith(ls[at + 4], <<"P", "u", "b", "l", "i", "s", "h", "e", "d", ":", " ">>)
                  /\ StartsWith(ls[at + 5], <<"T", "a", "g", "s", ":", " ">>)
                  /\ StartsWith(ls[at + 6], <<"D", "e", "s", "c", "r", "i", "p", "t", "i", "o",
                                              "n", ":", " ">>)
                  /\ ls[at + 7] = <<>>

FirstTen(page) == SubSeq(page, 1, AtMost(Len(page), 10))

\* C5 as stated: for EVERY successful answer to GET /articles, get_top_articles
\* returns the header followed by up to ten blocks.
C5_Original ==
    \A i \in Invocations :
        (call[i].tool = "get_top_articles" /\ Ended(i) /\ Fetched(i)) =>
            /\ pc[i] = "returned"
            /\ IsArticleListing(outcome[i].text, FirstTen(Payload(i)))

\* C5, amended: for every successful answer to GET /articles that holds at
\* least one article, get_top_articles returns "# Dev.to Articles\n\n"
\* followed by one "## <title>" block per article, ten at most, in response
\* order, each with the lines ID:, Author:, Published:, Tags:, Description:
\* in that order.
C5_ListingOfNonEmptyAnswer ==
    \A i \in Invocations :
        (call[i].tool = "get_top_articles" /\ Ended(i) /\ Fetched(i)
         /\ Len(Payload(i)) > 0) =>
            /\ pc[i] = "returned"
            /\ IsArticleListing(outcome[i].text, FirstTen(Payload(i)))

\* get_top_articles listed several articles of which one has no title
C5_Witness ==
    \E i \in Invocations :
        /\ call[i].tool = "get_top_articles" /\ pc[i] = "returned" /\ Fetched(i)
        /\ Len(Payload(i)) > 3
        /\ \E k \in 1..Len(Payload(i)) : "title" \notin DOMAIN Payload(i)[k]
        /\ StartsWith(outcome[i].text, <<"#", " ", "D", "e", "v">>)

---------------------------------------------------------------------------
(* C1 *)

EndsWith(text, suffix) ==
    Len(suffix) <= Len(text)
    /\ SubSeq(text, Len(text) - Len(suffix) + 1, Len(text)) = suffix

AuthorMissing(article) ==
    "user" \notin DOMAIN article \/ "name" \notin DOMAIN article["user"].v

NoLineStarts(ls, label) == \A k \in 1..Len(ls) : ~StartsWith(ls[k], label)

\* each field missing from an article of `shown` reads as its default in the
\* block of that article
ListingDefaults(text, shown) ==
    LET ls == Lines(text)
    IN  /\ Len(ls) = 2 + 7 * Len(shown) + 1
        /\ \A k \in 1..Len(shown) :
              LET at == 2 + 7 * (k - 1)
                  a == shown[k]
              IN  /\ "title" \notin DOMAIN a =>
                        ls[at + 1] = <<"#", "#", " ", "U", "n", "t", "i", "t", "l", "e", "d">>
                  /\ "id" \notin DOMAIN a => ls[at + 2] = <<"I", "D", ":", " ">>
                  /\ AuthorMissing(a) =>
                        ls[at + 3] = <<"A", "u", "t", "h", "o", "r", ":", " ", "U", "n", "k",
                                       "n", "o", "w", "n", " ", "A", "u", "t", "h", "o", "r">>
                  /\ "readable_publish_date" \notin DOMAIN a =>
                        ls[at + 4] = <<"P", "u", "b", "l", "i", "s", "h", "e", "d", ":", " ",
                                       "U", "n", "k", "n", "o", "w", "n", " ", "d", "a", "t", "e">>
                  /\ "tags" \notin DOMAIN a => ls[at + 5] = <<"T", "a", "g", "s", ":", " ">>
                  /\ "description" \notin DOMAIN a =>
                        ls[at + 6] = <<"D", "e", "s", "c", "r", "i", "p", "t", "i", "o", "n",
                                       ":", " ", "N", "o", " ", "d", "e", "s", "c", "r", "i",
                                       "p", "t", "i", "o", "n", " ", "a", "v", "a", "i", "l",
                                       "a", "b", "l", "e", ".">>

\* each field missing from the article reads as its default in the details
DetailsDefaults(text, a) ==
    LET ls == Lines(text)
    IN  /\ Len(ls) >= 9
        /\ "title" \notin DOMAIN a =>
              ls[1] = <<"#", " ", "U", "n", "t", "i", "t", "l", "e", "d">>
        /\ AuthorMissing(a) =>
              ls[3] = <<"A", "u", "t", "h", "o", "r", ":", " ", "U", "n", "k",
                        "n", "o", "w", "n", " ", "A", "u", "t", "h", "o", "r">>
        /\ "readable_publish_date" \notin DOMAIN a =>
              ls[4] = <<"P", "u", "b", "l", "i", "s", "h", "e", "d", ":", " ",
                        "U", "n", "k", "n", "o", "w", "n", " ", "d", "a", "t", "e">>
        /\ "tags" \notin DOMAIN a => ls[5] = <<"T", "a", "g", "s", ":", " ">>
        /\ "body_markdown" \notin DOMAIN a =>
              /\ Len(ls) = 9
              /\ ls[9] = <<"N", "o", " ", "c", "o", "n", "t", "e", "n", "t", " ", "a", "v",
                           "a", "i", "l", "a", "b", "l", "e", ".">>

\* each field missing from the user reads as its default in the profile; a
\* missing link, location or date has the empty default, which prints no line
ProfileDefaults(text, u) ==
    LET ls == Lines(text)
    IN  /\ Len(ls) >= 5
        /\ "name" \notin DOMAIN u =>
              StartsWith(ls[1], <<"#", " ", "U", "n", "k", "n", "o", "w", "n", " ", "(", "@">>)
        /\ "username" \notin DOMAIN u =>
              EndsWith(ls[1], <<"(", "@", "U", "n", "k", "n", "o", "w", "n", ")">>)
        /\ "summary" \notin DOMAIN u =>
              ls[3] = <<"B", "i", "o", ":", " ", "N", "o", " ", "b", "i", "o", " ", "a", "v",
                        "a", "i", "l", "a", "b", "l", "e", ".">>
        /\ "location" \notin DOMAIN u =>
              NoLineStarts(ls, <<"L", "o", "c", "a", "t", "i", "o", "n", ":">>)
        /\ "joined_at" \notin DOMAIN u =>
              NoLineStarts(ls, <<"M", "e", "m", "b", "e", "r", " ", "s", "i", "n", "c", "e", ":">>)
        /\ "twitter_username" \notin DOMAIN u =>
              NoLineStarts(ls, <<"T", "w", "i", "t", "t", "e", "r", ":">>)
        /\ "github_username" \notin DOMAIN u =>
              NoLineStarts(ls, <<"G", "i", "t", "H", "u", "b", ":">>)
        /\ "website_url" \notin DOMAIN u =>
              NoLineStarts(ls, <<"W", "e", "b", "s", "i", "t", "e", ":">>)

\* the articles of a list are formatted with their defaults, empty or not
ListingIsTotal(i) ==
    (call[i].tool \in ListTools /\ Len(Payload(i)) > 0) =>
        /\ pc[i] = "returned"
        /\ ListingDefaults(outcome[i].text, FirstTen(Payload(i)))

\* C1 as stated: for EVERY article or user object with any subset of the
\* optional fields missing, the three formatters return a string, never
\* raise, and put the documented default in the place of each missing field.
C1_Original ==
    \A i \in Invocations :
        (Ended(i) /\ Fetched(i)) =>
            /\ ListingIsTotal(i)
            /\ call[i].tool \in DetailTools =>
                  /\ pc[i] = "returned"
                  /\ DetailsDefaults(outcome[i].text, Payload(i))
            /\ call[i].tool = "get_user_info" =>
                  /\ pc[i] = "returned"
                  /\ ProfileDefaults(outcome[i].text, Payload(i))

\* C1, amended: for every article or user object that has at least one key,
\* whichever of the optional fields are missing, format_article_details and
\* format_user_profile return a string, never raise, and put the documented
\* default in the place of each missing field; format_articles does so for
\* every article of its list, the empty object included.  (On the object
\* with no key at all the two single-object formatters return their
\* "not found" sentinel and substitute nothing.)
C1_DefaultsForMissingFields ==
    \A i \in Invocations :
        (Ended(i) /\ Fetched(i)) =>
            /\ ListingIsTotal(i)
            /\ (call[i].tool \in DetailTools /\ DOMAIN Payload(i) # {}) =>
                  /\ pc[i] = "returned"
                  /\ DetailsDefaults(outcome[i].text, Payload(i))
            /\ (call[i].tool = "get_user_info" /\ DOMAIN Payload(i) # {}) =>
                  /\ pc[i] = "returned"
                  /\ ProfileDefaults(outcome[i].text, Payload(i))

\* an article that has a key, and none of the optional fields, was formatted
C1_Witness ==
    \E i \in Invocations :
        /\ call[i].tool = "get_article_details" /\ pc[i] = "returned" /\ Fetched(i)
        /\ DOMAIN Payload(i) # {}
        /\ DOMAIN Payload(i) \cap ArticleKeys = {}
        /\ StartsWith(outcome[i].text, <<"#", " ", "U", "n", "t", "i", "t", "l", "e", "d", "\n">>)

---------------------------------------------------------------------------
(* C9 *)

UpdateKeys == {"title", "body_markdown", "tags", "published"}

\* C9: the "article" object update_article puts has exactly the keys of the
\* optional arguments that were supplied (not None), each with the supplied
\* value, falsy ones such as "" and False included; nothing of the article
\* fetched first is copied, and with no optional argument it is empty.
C9_PartialUpdatePayload ==
    \A i \in Invocations :
        (call[i].tool = "update_article" /\ Len(requests[i]) >= 2) =>
            LET put == requests[i][2]
                sent == put.json.v["article"].v
                supplied == {k \in UpdateKeys : call[i].args[k] # PyNone}
            IN  /\ put.method = "PUT"
                /\ DOMAIN put.json.v = {"article"}
                /\ DOMAIN sent = supplied
                /\ \A k \in supplied : sent[k] = call[i].args[k]

\* a PUT was sent for an update that supplied title "" and published False
\* and left body_markdown out, the article fetched first having all three
C9_Witness ==
    \E i \in Invocations :
        /\ call[i].tool = "update_article" /\ Len(requests[i]) = 2
        /\ call[i].args.title = JStr(<<>>)
        /\ call[i].args.published = JBool(FALSE)
        /\ call[i].args.body_markdown = PyNone
        /\ "body_markdown" \in DOMAIN requests[i][1].body.v
        /\ {"title", "published"} \subseteq DOMAIN requests[i][2].json.v["article"].v

---------------------------------------------------------------------------
(* C8 *)

OpenSessions(i) == {k \in 1..Len(sessions[i]) : sessions[i][k].open}

\* C8: under every interleaving of invocations and every mix of answers,
\* each session an invocation opened is closed once the invocation has
\* returned or failed, so that no session is open when all have ended; a
\* session is open only while its one request is in flight, and no session
\* carries two requests.
C8_SessionsScopedAndReleased ==
    /\ \A i \in Invocations :
          /\ Ended(i) => OpenSessions(i) = {}
          /\ pc[i] = "idle" => Len(sessions[i]) = 0
          /\ OpenSessions(i) = IF InFlight(i) THEN {requests[i][Len(requests[i])].session}
                               ELSE {}
          /\ \A k \in 1..Len(sessions[i]) : sessions[i][k].sent = 1
          /\ Len(sessions[i]) = Len(requests[i])
          /\ \A k \in 1..Len(requests[i]) : requests[i][k].session = k
    /\ (\A i \in Invocations : Ended(i)) =>
          (\A i \in Invocations : \A k \in 1..Len(sessions[i]) : ~sessions[i][k].open)

\* all invocations have ended, one of them failed on an HTTP error, one of
\* them is an update_article that went through two sessions
C8_Witness ==
    /\ \A i \in Invocations : Ended(i)
    /\ \E i \in Invocations : pc[i] = "failed" /\ Refused(i)
    /\ \E i \in Invocations : call[i].tool = "update_article" /\ Len(sessions[i]) = 2

---------------------------------------------------------------------------
(* C10 *)

\* C10: an invocation issues one request, update_article two in sequence and
\* never a retry: every handler but update_article issues exactly one
\* request; update_article issues GET /articles/{id} and, only once that GET
\* was answered 2xx, PUT /articles/{id}; no request follows a failed one and
\* no invocation has two requests in flight.
C10_OneOrTwoSequentialRequests ==
    \A i \in Invocations :
        LET rs == requests[i]
            url == BASE_URL \o <<"/", "a", "r", "t", "i", "c", "l", "e", "s", "/">>
                   \o IntStr(call[i].args.article_id.v)
        IN  /\ pc[i] = "idle" => Len(rs) = 0
            /\ pc[i] # "idle" => Len(rs) >= 1
            /\ call[i].tool # "update_article" => Len(rs) <= 1
            /\ call[i].tool = "update_article" =>
                  /\ Len(rs) <= 2
                  /\ rs[1].method = "GET" /\ rs[1].url = url
                  /\ Len(rs) = 2 => (rs[2].method = "PUT" /\ rs[2].url = url)
                  /\ pc[i] = "returned" => Len(rs) = 2
            /\ \A k \in 1..(Len(rs) - 1) : rs[k].state = "answered" /\ Is2xx(rs[k].status)
            /\ Cardinality({k \in 1..Len(rs) : rs[k].state = "sent"}) <= 1
            /\ Ended(i) => \A k \in 1..Len(rs) : rs[k].state # "sent"

\* an update_article whose GET failed sent no PUT, while another update_article
\* has its PUT in flight after a GET answered 2xx
C10_Witness ==
    /\ \E i \in Invocations :
          /\ call[i].tool = "update_article" /\ pc[i] = "failed"
          /\ Len(requests[i]) = 1 /\ ~Is2xx(requests[i][1].status)
    /\ \E i \in Invocations :
          /\ call[i].tool = "update_article" /\ pc[i] = "await_put"
          /\ Len(requests[i]) = 2 /\ Is2xx(requests[i][1].status)
          /\ requests[i][2].state = "sent"

=============================================================================
